---- MODULE Spec2Model ----
(***************************************************************************)
(* Model of src/main.py: the APIEndpointValidator class (load_schema,      *)
(* find_endpoints, validate_endpoints) and the main() driver.              *)
(*                                                                         *)
(* Two specifications are given.  Spec drives one validator object through *)
(* its public methods in any order (the class is a library as well as a    *)
(* CLI).  MainSpec is one run of main(): argument parsing, construction,   *)
(* load_schema, find_endpoints, validate_endpoints, exit status.           *)
(***************************************************************************)
EXTENDS Integers, Sequences, FiniteSets, TLC

(***************************************************************************)
(* Bounds of the model.                                                    *)
(***************************************************************************)
\* most records self.endpoints holds: find_endpoints is not called when the
\* call would make the list longer than this
MaxEndpoints == 2

(***************************************************************************)
(* Document values.  yaml.safe_load / json.load return an untyped tree of  *)
(* mappings, sequences, scalars and null.  Only the part of the tree the   *)
(* validator touches is kept: the document root, the value under `paths`,  *)
(* and the value under each path.                                          *)
(***************************************************************************)
EndpointPaths == {"/users", "/items"}

\* keys that may appear under a path of the schema
KeyNames == {"get", "GET"}

\* the literal list of src/main.py line 101
ValidMethods == {"get", "post", "put", "delete", "patch", "options", "head"}

\* the value under one path: a mapping with these keys, or null (which stands
\* for every value that is no mapping: it has no .keys())
EntryValues ==
    {[tag |-> "null", keys |-> {}]}
        \cup {[tag |-> "map", keys |-> k] : k \in {{}, {"get"}, {"GET"}}}

Absent == [tag |-> "absent", keys |-> {}]

\* the value under `paths`.  has: the endpoint strings e with `e in value`
\* (keys of a mapping, elements of a sequence, substrings of a string; the
\* tag "seq" stands for a sequence and for a string, which both take no string
\* index); entries: the value under each key of a mapping.
PathsValues ==
    {[tag |-> "null", has |-> {}, entries |-> [p \in EndpointPaths |-> Absent]],
     [tag |-> "num", has |-> {}, entries |-> [p \in EndpointPaths |-> Absent]]}
        \cup {[tag |-> "seq", has |-> h, entries |-> [p \in EndpointPaths |-> Absent]] :
                h \in {{}, {"/users"}}}
        \cup {[tag |-> "map", has |-> {p \in EndpointPaths : e[p] # Absent}, entries |-> e] :
                e \in [EndpointPaths -> EntryValues \cup {Absent}]}

NoPaths == [tag |-> "absent", has |-> {}, entries |-> [p \in EndpointPaths |-> Absent]]

\* the document root.  empty: the value is falsy in Python (None, 0, "", [],
\* {}); hasPaths: `'paths' in root` is true; paths: root['paths'] of a mapping.
None == [tag |-> "null", empty |-> TRUE, hasPaths |-> FALSE, paths |-> NoPaths]

\* a null document, the empty mapping {}, a number, a string that contains
\* "paths", a sequence that does not, a mapping without `paths`, and the
\* mappings with `paths`
SchemaValues ==
    {None,
     [tag |-> "map", empty |-> TRUE, hasPaths |-> FALSE, paths |-> NoPaths],
     [tag |-> "num", empty |-> FALSE, hasPaths |-> FALSE, paths |-> NoPaths],
     [tag |-> "str", empty |-> FALSE, hasPaths |-> TRUE, paths |-> NoPaths],
     [tag |-> "seq", empty |-> FALSE, hasPaths |-> FALSE, paths |-> NoPaths],
     [tag |-> "map", empty |-> FALSE, hasPaths |-> FALSE, paths |-> NoPaths]}
        \cup {[tag |-> "map", empty |-> FALSE, hasPaths |-> TRUE, paths |-> pv] :
                pv \in PathsValues}

(***************************************************************************)
(* Endpoint records and error strings.                                     *)
(***************************************************************************)
\* an endpoint record is the tuple (file_path, endpoint) of line 72
Record(file_path, endpoint) == <<file_path, endpoint>>

\* an f-string is the sequence of its literal and substituted pieces
NotFoundError(file_path, endpoint) ==
    <<"Endpoint '", endpoint, "' (defined in ", file_path, ") not found in schema.">>

NoMethodsError(endpoint) ==
    <<"Endpoint '", endpoint, "' in schema does not define valid HTTP methods.">>

SchemaNotLoadedError == <<"Schema not loaded.">>

NoPathsError == <<"No paths defined in schema">>

\* outcome of a call: it returned a value, or an exception left it
Returned(v) == [exc |-> "none", value |-> v]

Raised(e) == [exc |-> e, value |-> <<>>]

NotCalled == [exc |-> "not called", value |-> <<>>]

(***************************************************************************)
(* The environment: the schema file and the source tree.                   *)
(***************************************************************************)
\* a path name with the suffix str.endswith() sees
SchemaPathNames ==
    {[path |-> "api.yaml", suffix |-> ".yaml"], [path |-> "api.yml", suffix |-> ".yml"],
     [path |-> "api.json", suffix |-> ".json"], [path |-> "api.txt", suffix |-> ".txt"]}

endswith(name, suffix) == name.suffix = suffix

\* what open() finds at schema_path, and what the parser makes of the text:
\* not well-formed, or the value it parses to
SchemaFiles ==
    {[st |-> "missing", wellFormed |-> FALSE, value |-> None],
     [st |-> "unreadable", wellFormed |-> FALSE, value |-> None],
     [st |-> "readable", wellFormed |-> FALSE, value |-> None]}
        \cup {[st |-> "readable", wellFormed |-> TRUE, value |-> v] : v \in SchemaValues}

\* the files os.walk yields under code_path, in the order it yields them
FileNames ==
    <<[path |-> "a.py", suffix |-> ".py"], [path |-> "README.md", suffix |-> ".md"],
      [path |-> "b.py", suffix |-> ".py"]>>

\* what re.findall captures from the text of a file: no route, or one
MatchLists == {<<>>} \cup {<<p>> : p \in EndpointPaths}

\* one file of the tree: open()/read() fails on it, or it is read and
\* re.findall captures these route paths from its text
TreeFileStates ==
    {[st |-> "unreadable", matches |-> <<>>]}
        \cup {[st |-> "readable", matches |-> m] : m \in MatchLists}

\* the text of a file that is no .py file is never read: one text is enough
Trees ==
    {t \in [1 .. Len(FileNames) -> TreeFileStates] :
        \A i \in 1 .. Len(FileNames) :
            endswith(FileNames[i], ".py") \/ t[i].st = "unreadable"
                \/ t[i].matches = <<"/users">>}

(***************************************************************************)
(* APIEndpointValidator.load_schema                                        *)
(***************************************************************************)
\* outcome of the call and the value of self.schema after it
load_schema(schema_path, old, doc) ==
    IF doc.st = "missing" THEN [outcome |-> Raised("FileNotFoundError"), schema |-> old]
    ELSE IF doc.st = "unreadable"
    THEN [outcome |-> Raised("PermissionError"), schema |-> old]
    ELSE IF endswith(schema_path, ".yaml") \/ endswith(schema_path, ".yml")
    THEN IF doc.wellFormed
         THEN [outcome |-> Returned(<<>>), schema |-> doc.value]
         ELSE [outcome |-> Raised("YAMLError"), schema |-> old]
    ELSE IF endswith(schema_path, ".json")
    THEN IF doc.wellFormed
         THEN [outcome |-> Returned(<<>>), schema |-> doc.value]
         ELSE [outcome |-> Raised("JSONDecodeError"), schema |-> old]
    ELSE [outcome |-> Raised("ValueError"), schema |-> old]

(***************************************************************************)
(* APIEndpointValidator.find_endpoints                                     *)
(***************************************************************************)
\* the loop over the walked files from the i-th on; acc is self.endpoints
RECURSIVE scan_files(_, _, _)
scan_files(tree, i, acc) ==
    IF i > Len(FileNames) THEN [outcome |-> Returned(<<>>), endpoints |-> acc]
    ELSE IF ~endswith(FileNames[i], ".py")
    THEN scan_files(tree, i + 1, acc)
    ELSE IF tree[i].st = "unreadable"
    THEN [outcome |-> Raised("PermissionError"), endpoints |-> acc]
    ELSE scan_files(tree, i + 1,
            acc \o [k \in 1 .. Len(tree[i].matches) |->
                        Record(FileNames[i].path, tree[i].matches[k])])

\* a plausible bug: the scan starts from a fresh list
find_endpoints_fresh(endpoints, tree) == scan_files(tree, 1, <<>>)

\* outcome of the call and the value of self.endpoints after it
find_endpoints(endpoints, tree) == scan_files(tree, 1, endpoints)

(***************************************************************************)
(* APIEndpointValidator.validate_endpoints                                 *)
(***************************************************************************)
\* `not self.schema`
falsy(schema) == schema.empty

\* `'paths' in self.schema`: a TypeError for a number or a boolean
paths_in(schema) ==
    IF schema.tag = "num" THEN Raised("TypeError") ELSE Returned(schema.hasPaths)

\* self.schema['paths']: a TypeError unless the root is a mapping
paths_of(schema) ==
    IF schema.tag = "map" THEN Returned(schema.paths) ELSE Raised("TypeError")

\* a plausible bug: the method check is not in the else branch
check_endpoint_no_else(schema, file_path, endpoint) ==
    LET entry == schema.paths.entries[endpoint]
    IN  IF schema.tag # "map" \/ schema.paths.tag # "map" THEN Raised("TypeError")
        ELSE Returned(
                (IF endpoint \notin schema.paths.has
                 THEN <<NotFoundError(file_path, endpoint)>> ELSE <<>>)
                \o (IF entry.keys \cap ValidMethods = {}
                    THEN <<NoMethodsError(endpoint)>> ELSE <<>>))

\* one pass of the loop body: the errors it appends, or the exception
check_endpoint(schema, file_path, endpoint) ==
    LET paths == paths_of(schema)
    IN  IF paths.exc # "none" THEN paths
        ELSE IF paths.value.tag \in {"null", "num"} THEN Raised("TypeError")
        ELSE IF endpoint \notin paths.value.has
        THEN Returned(<<NotFoundError(file_path, endpoint)>>)
        ELSE IF paths.value.tag # "map" THEN Raised("TypeError")
        ELSE LET entry == paths.value.entries[endpoint]
             IN  IF entry.tag # "map" THEN Raised("AttributeError")
                 ELSE IF entry.keys \cap ValidMethods = {}
                 THEN Returned(<<NoMethodsError(endpoint)>>)
                 ELSE Returned(<<>>)

\* the for loop of lines 93-102 from the i-th record on
RECURSIVE validate_loop(_, _, _, _)
validate_loop(schema, endpoints, i, errors) ==
    IF i > Len(endpoints) THEN Returned(errors)
    ELSE LET step == check_endpoint(schema, endpoints[i][1], endpoints[i][2])
         IN  IF step.exc # "none" THEN step
             ELSE validate_loop(schema, endpoints, i + 1, errors \o step.value)

\* a plausible bug: an empty `paths` is taken for a missing one
validate_endpoints_empty_paths(schema, endpoints) ==
    IF falsy(schema) THEN Returned(<<SchemaNotLoadedError>>)
    ELSE IF paths_in(schema).exc # "none" THEN paths_in(schema)
    ELSE IF ~paths_in(schema).value \/ schema.paths.has = {}
    THEN Returned(<<NoPathsError>>)
    ELSE validate_loop(schema, endpoints, 1, <<>>)

\* the value validate_endpoints returns, or the exception that leaves it
validate_endpoints(schema, endpoints) ==
    IF falsy(schema) THEN Returned(<<SchemaNotLoadedError>>)
    ELSE IF paths_in(schema).exc # "none" THEN paths_in(schema)
    ELSE IF ~paths_in(schema).value THEN Returned(<<NoPathsError>>)
    ELSE validate_loop(schema, endpoints, 1, <<>>)

(***************************************************************************)
(* State.                                                                  *)
(***************************************************************************)
VARIABLES
    schema_path,    \* self.schema_path
    schema,         \* self.schema
    endpoints,      \* self.endpoints
    lastOp,         \* the method called last on the object
    outcome,        \* how that call ended
    lastScan,       \* history: the last find_endpoints call, the records it read
    repeated,       \* history: the last two calls were both validate_endpoints
    calls,          \* history of main(): the calls it made and how each ended
    pc,             \* position of main(); "api" when the object is used directly
    exitStatus      \* exit status of the process; -1 while it runs

vars ==
    <<schema_path, schema, endpoints, lastOp, outcome, lastScan, repeated, calls, pc,
      exitStatus>>

\* APIEndpointValidator.__init__ (with the history variables at their start)
Constructed ==
    /\ schema = None
    /\ endpoints = <<>>
    /\ lastOp = "none"
    /\ outcome = NotCalled
    /\ lastScan = [outcome |-> NotCalled, endpoints |-> <<>>]
    /\ repeated = FALSE
    /\ calls = <<>>

(***************************************************************************)
(* The three methods as steps on the object.                               *)
(***************************************************************************)
load_schema_call ==
    \E doc \in SchemaFiles :
        LET r == load_schema(schema_path, schema, doc)
        IN  /\ schema' = r.schema
            /\ outcome' = r.outcome
            /\ lastOp' = "load"
            /\ repeated' = FALSE
            /\ UNCHANGED <<schema_path, endpoints, lastScan>>

find_endpoints_call ==
    \E tree \in Trees :
        LET r == find_endpoints(endpoints, tree)
        IN  /\ Len(r.endpoints) <= MaxEndpoints
            /\ endpoints' = r.endpoints
            /\ outcome' = r.outcome
            /\ lastScan' = scan_files(tree, 1, <<>>)
            /\ lastOp' = "find"
            /\ repeated' = FALSE
            /\ UNCHANGED <<schema_path, schema>>

\* a plausible bug: the records are consumed by the validation
validate_endpoints_call_consuming ==
    /\ outcome' = validate_endpoints(schema, endpoints)
    /\ endpoints' = <<>>
    /\ lastOp' = "validate"
    /\ repeated' = (lastOp = "validate")
    /\ UNCHANGED <<schema_path, schema, lastScan>>

validate_endpoints_call ==
    /\ outcome' = validate_endpoints(schema, endpoints)
    /\ lastOp' = "validate"
    /\ repeated' = (lastOp = "validate")
    /\ UNCHANGED <<schema_path, schema, endpoints, lastScan>>

(***************************************************************************)
(* Spec: a client calls the methods of one validator in any order.  The    *)
(* object is built for a YAML schema; the other formats are in MainSpec.   *)
(***************************************************************************)
Init ==
    /\ schema_path = [path |-> "api.yaml", suffix |-> ".yaml"]
    /\ Constructed
    /\ pc = "api"
    /\ exitStatus = -1

ApiLoadSchema == pc = "api" /\ load_schema_call /\ UNCHANGED <<calls, pc, exitStatus>>

ApiFindEndpoints == pc = "api" /\ find_endpoints_call /\ UNCHANGED <<calls, pc, exitStatus>>

ApiValidateEndpoints ==
    pc = "api" /\ validate_endpoints_call /\ UNCHANGED <<calls, pc, exitStatus>>

Next == ApiLoadSchema \/ ApiFindEndpoints \/ ApiValidateEndpoints

Spec == Init /\ [][Next]_vars

(***************************************************************************)
(* MainSpec: one run of main().                                            *)
(***************************************************************************)
\* what parse_args() makes of sys.argv: -h/--help prints the help and exits
\* with 0, a missing or unknown argument exits with 2, and otherwise the two
\* positional arguments are there (-v only changes the logging level)
CommandLines ==
    {[kind |-> "help", schema_path |-> [path |-> "", suffix |-> ""]],
     [kind |-> "usage", schema_path |-> [path |-> "", suffix |-> ""]]}
        \cup {[kind |-> "run", schema_path |-> n] : n \in SchemaPathNames}

MainInit ==
    /\ schema_path = [path |-> "", suffix |-> ""]
    /\ Constructed
    /\ pc = "parse"
    /\ exitStatus = -1

\* lines 126-134: parse the arguments and construct the validator
MainParseArgs ==
    /\ pc = "parse"
    /\ \E cmd \in CommandLines :
        /\ schema_path' = cmd.schema_path
        /\ pc' = IF cmd.kind = "run" THEN "load" ELSE "exit"
        /\ exitStatus' = IF cmd.kind = "run" THEN -1 ELSE IF cmd.kind = "help" THEN 0 ELSE 2
    /\ UNCHANGED <<schema, endpoints, lastOp, outcome, lastScan, repeated, calls>>

\* a plausible bug: the exception is logged and the run goes on
after_call_swallowing(next) ==
    /\ calls' = Append(calls, <<lastOp', outcome'.exc>>)
    /\ pc' = next
    /\ exitStatus' = -1

\* after a call of the try block: on to the next line, or to the handler of
\* lines 147-149, which exits with 1
after_call(next) ==
    /\ calls' = Append(calls, <<lastOp', outcome'.exc>>)
    /\ pc' = IF outcome'.exc = "none" THEN next ELSE "exit"
    /\ exitStatus' = IF outcome'.exc = "none" THEN -1 ELSE 1

\* line 135
MainLoadSchema == pc = "load" /\ load_schema_call /\ after_call("find")

\* line 136
MainFindEndpoints == pc = "find" /\ find_endpoints_call /\ after_call("validate")

\* line 137
MainValidateEndpoints == pc = "validate" /\ validate_endpoints_call /\ after_call("report")

\* a plausible bug: the errors are logged and the exit status forgotten
MainReport_no_exit ==
    /\ pc = "report"
    /\ pc' = "exit"
    /\ exitStatus' = 0
    /\ UNCHANGED <<schema_path, schema, endpoints, lastOp, outcome, lastScan, repeated, calls>>

\* lines 139-145: exit with 1 when there are errors, else return
MainReport ==
    /\ pc = "report"
    /\ pc' = "exit"
    /\ exitStatus' = IF outcome.value # <<>> THEN 1 ELSE 0
    /\ UNCHANGED <<schema_path, schema, endpoints, lastOp, outcome, lastScan, repeated, calls>>

MainNext ==
    \/ MainParseArgs
    \/ MainLoadSchema
    \/ MainFindEndpoints
    \/ MainValidateEndpoints
    \/ MainReport

MainSpec == MainInit /\ [][MainNext]_vars

(***************************************************************************)
(* Properties.                                                             *)
(***************************************************************************)
Range(q) == {q[i] : i \in 1 .. Len(q)}

\* main() got past parse_args() and constructed the validator
ArgumentsParsed == schema_path.path # ""

\* load_schema and find_endpoints completed and validate_endpoints returned []
PipelineClean ==
    /\ <<"load", "none">> \in Range(calls)
    /\ <<"find", "none">> \in Range(calls)
    /\ lastOp = "validate"
    /\ outcome = Returned(<<>>)

\* C1 as stated: every run of main() exits with 0 if load_schema and
\* find_endpoints completed and validate_endpoints returned no error, and with
\* 1 in every other case.
C1_ExitStatus == pc = "exit" => exitStatus = (IF PipelineClean THEN 0 ELSE 1)

\* C1 amended: every run of main() whose command line parse_args() accepts
\* exits with 0 if load_schema and find_endpoints completed and
\* validate_endpoints returned no error, and with 1 in every other case.
C1_ExitStatusOnceParsed ==
    (pc = "exit" /\ ArgumentsParsed) => exitStatus = (IF PipelineClean THEN 0 ELSE 1)

C1_Witness == pc = "exit" /\ exitStatus = 0 /\ PipelineClean /\ endpoints # <<>>

\* the schema is a mapping whose `paths` is a mapping
HasPathsMapping(s) == s.tag = "map" /\ s.hasPaths /\ s.paths.tag = "map"

\* the errors C2 describes: per record, in order, not-found when the path is
\* no key of `paths`, else no-valid-methods when no key under it is a method
RECURSIVE ExpectedErrors(_, _)
ExpectedErrors(paths, records) ==
    IF records = <<>> THEN <<>>
    ELSE LET file_path == Head(records)[1]
             endpoint == Head(records)[2]
             first ==
                 IF endpoint \notin paths.has THEN <<NotFoundError(file_path, endpoint)>>
                 ELSE IF paths.entries[endpoint].keys \cap ValidMethods = {}
                 THEN <<NoMethodsError(endpoint)>>
                 ELSE <<>>
         IN  first \o ExpectedErrors(paths, Tail(records))

\* C2: for a loaded schema with a `paths` mapping, validate_endpoints returns
\* exactly the per-record errors, in discovery order, at most one per record.
C2_PerRecordErrors ==
    (lastOp = "validate" /\ HasPathsMapping(schema))
        => outcome = Returned(ExpectedErrors(schema.paths, endpoints))

\* C2 on the schemas whose every path maps to a mapping: there it holds
C2_PerRecordErrorsOnMappings ==
    (/\ lastOp = "validate"
     /\ HasPathsMapping(schema)
     /\ \A p \in schema.paths.has : schema.paths.entries[p].tag = "map")
        => outcome = Returned(ExpectedErrors(schema.paths, endpoints))

\* C3: for a loaded schema without a `paths` key, the empty mapping included,
\* validate_endpoints returns exactly the error "No paths defined in schema".
C3_NoPathsKey ==
    (lastOp = "validate" /\ schema.tag = "map" /\ ~schema.hasPaths)
        => outcome = Returned(<<NoPathsError>>)

\* Scenario B: the schema {paths: {}} and the records [("a.py", "/users")]
SchemaB ==
    [tag |-> "map", empty |-> FALSE, hasPaths |-> TRUE,
     paths |-> [tag |-> "map", has |-> {}, entries |-> [p \in EndpointPaths |-> Absent]]]

EndpointsB == <<Record("a.py", "/users")>>

ScenarioB == lastOp = "validate" /\ schema = SchemaB /\ endpoints = EndpointsB

\* C4 as stated: in Scenario B validate_endpoints returns the one error "No
\* paths defined in schema", and the run exits with 1.
C4_ScenarioB_NoPaths ==
    ScenarioB => /\ outcome = Returned(<<NoPathsError>>)
                 /\ pc = "exit" => exitStatus = 1

\* C4 amended: in Scenario B validate_endpoints returns the one error
\* "Endpoint '/users' (defined in a.py) not found in schema.", and the run
\* exits with 1.
C4_ScenarioB_NotFound ==
    ScenarioB => /\ outcome = Returned(<<NotFoundError("a.py", "/users")>>)
                 /\ pc = "exit" => exitStatus = 1

C4_Witness == ScenarioB /\ pc = "exit" /\ exitStatus = 1

C6_FailurePropagates ==
    /\ Len(calls) <= 3
    /\ \A i \in 1 .. Len(calls) :
        /\ calls[i][1] = <<"load", "find", "validate">>[i]
        /\ calls[i][2] # "none" => i = Len(calls) /\ pc = "exit" /\ exitStatus = 1

C6_Witness ==
    /\ calls = <<<<"load", "none">>, <<"find", "PermissionError">>>>
    /\ endpoints # <<>>
    /\ pc = "exit"
    /\ exitStatus = 1

\* the schema path ends in one of the supported extensions
SupportedFormat(name) ==
    endswith(name, ".yaml") \/ endswith(name, ".yml") \/ endswith(name, ".json")

\* C7: for a schema path with an unsupported extension, whether or not the
\* file exists or is readable, load_schema fails with the unsupported-format
\* error, nothing is parsed, find_endpoints is not started, and the run exits
\* with 1.
C7_UnsupportedFormatFirst ==
    (calls # <<>> /\ ~SupportedFormat(schema_path))
        => /\ calls = <<<<"load", "ValueError">>>>
           /\ schema = None
           /\ pc = "exit"
           /\ exitStatus = 1

\* C8: validate_endpoints never raises on a loaded document, whatever `paths`
\* and the value under each path are: it returns a sequence of errors.
C8_ValidateNeverRaises ==
    (lastOp = "validate" /\ schema.tag = "map") => outcome.exc = "none"

\* C9: validate_endpoints leaves self.schema and self.endpoints unchanged, and
\* called twice in a row it ends the same way both times.
C9_ValidateIsPure ==
    [][lastOp' = "validate"
        => /\ schema' = schema
           /\ endpoints' = endpoints
           /\ lastOp = "validate" => outcome' = outcome]_vars

C9_Witness ==
    /\ lastOp = "validate"
    /\ repeated
    /\ endpoints # <<>>
    /\ outcome.exc = "none"
    /\ outcome.value # <<>>

\* C10: find_endpoints only appends to self.endpoints, the records it read, also
\* when it fails on an unreadable file; no other method changes the list.
C10_FindOnlyAppends ==
    [][IF lastOp' = "find"
       THEN endpoints' = endpoints \o lastScan'.endpoints
       ELSE endpoints' = endpoints]_vars

\* a scan failed after reading a record, and a later validation reported on it
C10_Witness ==
    /\ lastOp = "validate"
    /\ lastScan.outcome.exc = "PermissionError"
    /\ lastScan.endpoints # <<>>
    /\ endpoints = lastScan.endpoints
    /\ outcome = Returned(<<NotFoundError(endpoints[1][1], endpoints[1][2])>>)

\* two successful scans that read the same records: every record is twice there
C10_Doubled ==
    /\ lastOp = "find"
    /\ outcome.exc = "none"
    /\ lastScan.endpoints # <<>>
    /\ endpoints = lastScan.endpoints \o lastScan.endpoints

====
